---- MODULE Spec2Model ----
(***************************************************************************)
(* polymorphic_value: a type-erased value container with small-buffer      *)
(* optimisation (polymorphic_value.h) driven by a client that constructs,  *)
(* copies, moves, assigns, emplaces and destroys containers (main.cpp).    *)
(*                                                                         *)
(* A container is a slot with a lifetime (alive), a vtable pointer         *)
(* (m_vtable, an address) and a storage cell (m_storage, the union of      *)
(* heap_buffer and local_buffer).  The free store is a finite set of block *)
(* addresses; operator new returns the lowest free one, so a freed address *)
(* is handed out again at once.  Every handler is one action; it is        *)
(* the sequential composition of the statements of its body, written as    *)
(* functions from a machine state record to a machine state record.  The   *)
(* record carries the exception in flight (exc), the first undefined       *)
(* behaviour met (ub) and the trace of events of the handler (log).        *)
(* Properties of one operation are stated of the run of its handler from   *)
(* every reachable state in which the client can call it.                  *)
(***************************************************************************)
EXTENDS Integers, Sequences, FiniteSets, TLC

\* ------------------------------------------------------------------ bounds
NumAddrs == 2
MaxValue == 2

\* The containers of the tests (poly1 and poly2); NoSlot where there is none.
Slots == {"poly1", "poly2"}
NoSlot == "none"
Addrs == 1..NumAddrs
Values == 1..MaxValue

\* --------------------------------------------------------- target platform
\* sizeof(void*) and alignof(void*) of the build.
PtrSize == 8
PtrAlign == 8

\* polymorphic_value<Base>: the default template arguments, clamped.
Max(a, b) == IF a > b THEN a ELSE b
SboSize == Max(PtrSize * 3, PtrSize)
SboAlignment == Max(PtrAlign, PtrAlign)
AllowAllocations == TRUE

\* ------------------------------------------------------------ client types
\* Small and Big are DerivedSpecialFunctions<1> and <sizeof(void*) * 4> of the
\* tests.  SmallSub derives from Small and fills the buffer exactly; its copy
\* constructor may throw.  Unsafe is small but its move constructor is not
\* noexcept; its constructors may throw.  Aligned is small and declared
\* alignas(alignof(void*) * 2).
Types == {"Small", "SmallSub", "Big", "Unsafe", "Aligned"}

SizeOf(T) ==
    CASE T = "Small" -> PtrSize + 4 + 4
      [] T = "SmallSub" -> PtrSize + 4 + 12
      [] T = "Big" -> PtrSize + 4 + PtrSize * 4 + 4
      [] T = "Unsafe" -> PtrSize + 4 + 4
      [] T = "Aligned" -> PtrAlign * 2

AlignOf(T) == IF T = "Aligned" THEN PtrAlign * 2 ELSE PtrAlign

is_nothrow_move_constructible(T) == T # "Unsafe"

\* The constructors of T that take arguments or copy may throw.
CtorMayThrow(T) == T \in {"SmallSub", "Unsafe"}

\* The static types through which an object of dynamic type T can be named.
DeclaredTypes(T) == IF T = "SmallSub" THEN {"Small", "SmallSub"} ELSE {T}

TypeIndex(T) ==
    CASE T = "Small" -> 0 [] T = "SmallSub" -> 1 [] T = "Big" -> 2 [] T = "Unsafe" -> 3
      [] T = "Aligned" -> 4

\* A bare (non managed) object of the client: declared type, dynamic type, value.
BareValues == { [decl |-> D, dyn |-> T, value |-> v] : D \in Types, T \in Types, v \in Values }
Bare == { x \in BareValues : x.decl \in DeclaredTypes(x.dyn) }

\* --------------------------------------------------------- storage decision
\* The decision with >= in place of > for the size.
store_in_heap_strict(T) ==
    \/ ~is_nothrow_move_constructible(T)
    \/ SizeOf(T) >= SboSize
    \/ AlignOf(T) > SboAlignment

\* store_in_heap<Derived, SboSize, SboAlignment>
store_in_heap(T) ==
    \/ ~is_nothrow_move_constructible(T)
    \/ SizeOf(T) > SboSize
    \/ AlignOf(T) > SboAlignment

\* ------------------------------------------------------------------ vtables
\* The static vtable objects.  Each is aligned to alignof(void*) * 2; the heap
\* vtable is the second member of odd_aligned_vtable, one pointer further.
TableAlign == PtrAlign * 2
offsetof_vtable == PtrSize
StaticBase(T, h) == (2 * TypeIndex(T) + (IF h THEN 1 ELSE 0) + 1) * TableAlign * 8
TableAddr(T, h) == StaticBase(T, h) + (IF h THEN offsetof_vtable ELSE 0)

get_vtable(T) == TableAddr(T, store_in_heap(T))

\* The table an address designates (the static object that holds it): its
\* entries are the functions of local_storage (heap = FALSE) or heap_storage
\* (heap = TRUE) for that type.
TypeOfIndex(i) ==
    CASE i = 0 -> "Small" [] i = 1 -> "SmallSub" [] i = 2 -> "Big" [] i = 3 -> "Unsafe"
      [] i = 4 -> "Aligned"
TableAt(a) ==
    LET k == (a \div (TableAlign * 8)) - 1
    IN  [type |-> TypeOfIndex(k \div 2), heap |-> (k % 2 = 1)]

\* The test taken modulo one pointer width instead of two.
storage_is_local_one_width(vt) == vt % PtrAlign = 0

storage_is_local(vt) == vt % (PtrAlign * 2) = 0

\* ------------------------------------------------------------ storage cells
\* The union {heap_buffer, local_buffer}: rep says which member was written
\* last ("none": indeterminate bytes).  A local object whose destructor has run
\* leaves dead bytes (live = FALSE).
EmptyCell == [rep |-> "none", type |-> "none", value |-> 0, live |-> FALSE, ptr |-> 0]
LocalCell(T, v) == [rep |-> "local", type |-> T, value |-> v, live |-> TRUE, ptr |-> 0]
DeadCell(T) == [rep |-> "local", type |-> T, value |-> 0, live |-> FALSE, ptr |-> 0]
HeapCell(p) == [rep |-> "heap", type |-> "none", value |-> 0, live |-> FALSE, ptr |-> p]

FreeBlock == [used |-> FALSE, type |-> "none", value |-> 0]
Block(T, v) == [used |-> TRUE, type |-> T, value |-> v]

VARIABLES
    alive,                \* lifetime of each container
    m_vtable,             \* polymorphic_value_impl::m_vtable (an address, 0 when dead)
    m_storage,            \* polymorphic_value_impl::m_storage
    heap,                 \* the free store: address -> block
    new_minus_delete,     \* new_call_counter - delete_call_counter (blocks obtained)
    ctor_minus_dtor,      \* constructor counters - destructor_ctor_counter
    threw,                \* some handler has exited by an exception
    allow_allocations,    \* the AllowAllocations argument the program's containers have
    halted                \* the run has ended: std::terminate, or undefined behaviour

vars == <<alive, m_vtable, m_storage, heap, new_minus_delete, ctor_minus_dtor,
          threw, allow_allocations, halted>>


\* ------------------------------------------------------------ machine state
\* The state a handler starts from.  A handler maps it to the state it leaves:
\* the same record with the events of its run (log), the exception that left
\* it (exc) and the undefined behaviour it ran into (ub).
Machine ==
    [alive |-> alive, m_vtable |-> m_vtable, m_storage |-> m_storage, heap |-> heap,
     new_minus_delete |-> new_minus_delete, ctor_minus_dtor |-> ctor_minus_dtor,
     log |-> <<>>, exc |-> "none", ub |-> "none", crashed |-> FALSE]

\* A statement runs only while no exception is in flight and the process lives.
Running(s) == s.exc = "none" /\ ~s.crashed

Ev(s, e) == [s EXCEPT !.log = Append(@, e)]

\* throw: the rest of the handler is skipped.
Throw(s, e) == [Ev(s, "throw") EXCEPT !.exc = e]

\* Undefined behaviour: the statement named by `kind` has no defined outcome.
\* The run is not followed past it: every outcome is possible from there.
Fault(s, kind) == [Ev(s, "ub") EXCEPT !.ub = kind, !.crashed = TRUE]

FreeAddrs(s) == { a \in Addrs : ~s.heap[a].used }

\* Whether constructor `ev` of T can throw: a move constructor only when it is
\* not noexcept.
CanThrow(T, ev) ==
    IF ev = "move_ctor" THEN ~is_nothrow_move_constructible(T) ELSE CtorMayThrow(T)

\* `new T{...}`: operator new (bad_alloc when the store is exhausted or the
\* allocation fails), then the constructor; a constructor that throws has its
\* block released by operator delete before the exception leaves.  `ev` is
\* the constructor that runs.
NewAddr(s) == CHOOSE a \in FreeAddrs(s) : \A b \in FreeAddrs(s) : a <= b

NewObject(s, T, v, ev, fail) ==
    IF ~Running(s) THEN s
    ELSE IF fail = "bad_alloc" \/ FreeAddrs(s) = {}
    THEN Throw(s, "bad_alloc")
    ELSE IF fail = "ctor" /\ CanThrow(T, ev)
    THEN Throw(Ev(Ev(s, "new"), "delete"), "ctor_throw")
    ELSE [Ev(Ev(s, "new"), ev) EXCEPT !.new_minus_delete = @ + 1,
                                      !.ctor_minus_dtor = @ + 1,
                                      !.heap[NewAddr(s)] = Block(T, v)]

\* `new (buffer) T{...}` into the local buffer of container c.
PlaceObject(s, c, T, v, ev, fail) ==
    IF ~Running(s) THEN s
    ELSE IF fail = "ctor" /\ CanThrow(T, ev)
    THEN Throw(s, "ctor_throw")
    ELSE [Ev(s, ev) EXCEPT !.ctor_minus_dtor = @ + 1, !.m_storage[c] = LocalCell(T, v)]

\* sbo_storage::build that takes the heap branch for every type.
build_always_allocates(s, c, T, v, ev, fail) ==
    LET s1 == NewObject(s, T, v, ev, fail)
    IN  IF Running(s) /\ Running(s1)
        THEN [s1 EXCEPT !.m_storage[c] = HeapCell(NewAddr(s))]
        ELSE s1

\* sbo_storage::build<Derived>(args...)
build(s, c, T, v, ev, fail) ==
    IF store_in_heap(T)
    THEN LET s1 == NewObject(s, T, v, ev, fail)
         IN  IF Running(s) /\ Running(s1)
             THEN [s1 EXCEPT !.m_storage[c] = HeapCell(NewAddr(s))]
             ELSE s1
    ELSE PlaceObject(s, c, T, v, ev, fail)

\* ---------------------------------------------------------- reading a cell
\* What a heap entry generated for T finds behind heap_buffer of container c:
\* "alien" is a live object of another type.
PointeeKind(s, c, T) ==
    LET cell == s.m_storage[c]
    IN  IF cell.rep # "heap" THEN "wild"
        ELSE IF cell.ptr = 0 THEN "null"
        ELSE IF ~s.heap[cell.ptr].used THEN "dangling"
        ELSE IF s.heap[cell.ptr].type = T THEN "object"
        ELSE "alien"

\* What a local entry finds in local_buffer of container c.
LocalKind(s, c) ==
    LET cell == s.m_storage[c]
    IN  IF cell.rep = "local" /\ cell.live THEN "object" ELSE "dead"

\* The value of the object a table entry of kind h reads in container c.
ObjValue(s, c, h) ==
    IF h THEN s.heap[s.m_storage[c].ptr].value ELSE s.m_storage[c].value

\* ------------------------------------------------------------ local_storage
local_destroy(s, c, T) ==
    IF ~Running(s) THEN s
    ELSE IF LocalKind(s, c) = "object"
    THEN [Ev(s, "dtor") EXCEPT !.ctor_minus_dtor = @ - 1, !.m_storage[c] = DeadCell(T)]
    ELSE \* the destructor runs on bytes that hold no object
         Fault(s, "destroy_dead_object")

\* local_storage::copy that moves out of the source.
local_copy_moves(s, src, dst, T, fail) ==
    PlaceObject(s, dst, T, ObjValue(s, src, FALSE), "move_ctor", fail)

local_copy(s, src, dst, T, fail) ==
    PlaceObject(s, dst, T, ObjValue(s, src, FALSE), "copy_ctor", fail)

local_copy_raw(s, x, dst, T, fail) ==
    PlaceObject(s, dst, T, x.value, "copy_ctor", fail)

\* local_storage::move that leaves the source without an object.
local_move_ends_source(s, src, dst, T) ==
    LET s1 == PlaceObject(s, dst, T, ObjValue(s, src, FALSE), "move_ctor", "none")
    IN  IF ~Running(s) THEN s ELSE [s1 EXCEPT !.m_storage[src] = DeadCell(T)]

local_move(s, src, dst, T) ==
    PlaceObject(s, dst, T, ObjValue(s, src, FALSE), "move_ctor", "none")

local_move_raw(s, x, dst, T) ==
    PlaceObject(s, dst, T, x.value, "move_ctor", "none")

\* *dst = value: copy_assign, copy_assign_raw, move_assign and move_assign_raw.
local_assign(s, dst, v, ev) ==
    IF ~Running(s) THEN s
    ELSE IF LocalKind(s, dst) = "object"
    THEN [Ev(s, ev) EXCEPT !.m_storage[dst].value = v]
    ELSE Fault(s, "assign_to_dead_object")

\* ------------------------------------------------------------- heap_storage
\* heap_storage::destroy that runs the destructor and keeps the block.
heap_destroy_keeps_block(s, c, T) ==
    IF ~Running(s) THEN s
    ELSE IF PointeeKind(s, c, T) = "object"
    THEN [Ev(s, "dtor") EXCEPT !.ctor_minus_dtor = @ - 1,
                               !.m_storage[c] = HeapCell(0)]
    ELSE s

\* delete *static_cast<Derived**>(ptr): nothing for a null pointer; otherwise
\* the destructor, then operator delete, on whatever the pointer designates.
heap_destroy(s, c, T) ==
    IF ~Running(s) THEN s
    ELSE LET k == PointeeKind(s, c, T)
             p == s.m_storage[c].ptr
         IN  CASE k = "null" -> s
               [] k = "object" ->
                    [Ev(Ev(s, "dtor"), "delete") EXCEPT !.ctor_minus_dtor = @ - 1,
                                                        !.new_minus_delete = @ - 1,
                                                        !.heap[p] = FreeBlock]
               [] k = "dangling" -> Fault(s, "double_free")
               [] k = "wild" -> Fault(s, "delete_wild_pointer")
               [] k = "alien" -> Fault(s, "delete_as_wrong_type")

heap_copy(s, src, dst, T, fail) ==
    LET s1 == NewObject(s, T, ObjValue(s, src, TRUE), "copy_ctor", fail)
    IN  IF ~Running(s) THEN s
        ELSE IF s1.exc = "bad_alloc" THEN s1
        ELSE IF PointeeKind(s, src, T) # "object"
        THEN \* the copy constructor reads a source that is not there
             Fault(Ev(s, "new"), "use_after_free")
        ELSE IF Running(s1)
        THEN [s1 EXCEPT !.m_storage[dst] = HeapCell(NewAddr(s))] ELSE s1

heap_copy_raw(s, x, dst, T, fail) ==
    LET s1 == NewObject(s, T, x.value, "copy_ctor", fail)
    IN  IF Running(s) /\ Running(s1)
        THEN [s1 EXCEPT !.m_storage[dst] = HeapCell(NewAddr(s))] ELSE s1

\* heap_storage::move without `*src = nullptr`.
heap_move_keeps_source(s, src, dst) ==
    IF ~Running(s) THEN s
    ELSE [Ev(s, "ptr_move") EXCEPT !.m_storage[dst] = HeapCell(s.m_storage[src].ptr)]

\* The pointer is handed over and the source's pointer is nulled.
heap_move(s, src, dst) ==
    IF ~Running(s) THEN s
    ELSE [Ev(s, "ptr_move") EXCEPT !.m_storage[dst] = HeapCell(s.m_storage[src].ptr),
                                   !.m_storage[src] = HeapCell(0)]

\* noexcept: an exception of `new Derived{std::move(...)}` ends the process.
heap_move_raw(s, x, dst, T, fail) ==
    LET s1 == NewObject(s, T, x.value, "move_ctor", fail)
    IN  IF ~Running(s) THEN s
        ELSE IF s1.exc # "none" THEN [s1 EXCEPT !.exc = "terminate", !.crashed = TRUE]
        ELSE [s1 EXCEPT !.m_storage[dst] = HeapCell(NewAddr(s))]

\* **dst = value: copy_assign, copy_assign_raw and move_assign_raw.
heap_assign(s, dst, T, v, ev) ==
    IF ~Running(s) THEN s
    ELSE LET k == PointeeKind(s, dst, T)
             p == s.m_storage[dst].ptr
         IN  CASE k = "object" -> [Ev(s, ev) EXCEPT !.heap[p].value = v]
               [] k = "null" -> Fault(s, "null_dereference")
               [] k = "dangling" -> Fault(s, "use_after_free")
               [] k = "wild" -> Fault(s, "wild_dereference")
               [] k = "alien" -> Fault(s, "assign_as_wrong_type")

\* std::swap of the two pointers.
\* heap_storage::move_assign that deletes the destination's object and takes
\* the source's pointer, instead of swapping the two pointers.
heap_move_assign_deletes(s, src, dst) ==
    LET p  == s.m_storage[dst].ptr
        s1 == IF s.m_storage[dst].rep = "heap" /\ p # 0 /\ s.heap[p].used
              THEN [Ev(Ev(s, "dtor"), "delete") EXCEPT !.ctor_minus_dtor = @ - 1,
                                                       !.new_minus_delete = @ - 1,
                                                       !.heap[p] = FreeBlock]
              ELSE s
    IN  IF ~Running(s) THEN s
        ELSE [Ev(s1, "ptr_move") EXCEPT
                !.m_storage[dst] = HeapCell(s.m_storage[src].ptr),
                !.m_storage[src] = HeapCell(0)]

heap_move_assign(s, src, dst) ==
    IF ~Running(s) THEN s
    ELSE [Ev(s, "ptr_swap") EXCEPT
            !.m_storage[dst] = HeapCell(s.m_storage[src].ptr),
            !.m_storage[src] = IF s.m_storage[dst].rep = "heap"
                               THEN HeapCell(s.m_storage[dst].ptr) ELSE EmptyCell]


\* ------------------------------------------------ dispatch through m_vtable
\* m_vtable->destroy(&m_storage) and the other entries: the function the table
\* at the stored address holds.
vt_destroy(s, c) ==
    IF ~Running(s) THEN s
    ELSE LET t == TableAt(s.m_vtable[c])
         IN  IF t.heap THEN heap_destroy(s, c, t.type)
             ELSE local_destroy(s, c, t.type)

vt_copy(s, src, dst, fail) ==
    IF ~Running(s) THEN s
    ELSE LET t == TableAt(s.m_vtable[dst])
         IN  IF t.heap THEN heap_copy(s, src, dst, t.type, fail)
             ELSE local_copy(s, src, dst, t.type, fail)

vt_copy_raw(s, x, dst, fail) ==
    IF ~Running(s) THEN s
    ELSE LET t == TableAt(s.m_vtable[dst])
         IN  IF t.heap THEN heap_copy_raw(s, x, dst, t.type, fail)
             ELSE local_copy_raw(s, x, dst, t.type, fail)

vt_move(s, src, dst) ==
    IF ~Running(s) THEN s
    ELSE LET t == TableAt(s.m_vtable[dst])
         IN  IF t.heap THEN heap_move(s, src, dst) ELSE local_move(s, src, dst, t.type)

vt_move_raw(s, x, dst, fail) ==
    IF ~Running(s) THEN s
    ELSE LET t == TableAt(s.m_vtable[dst])
         IN  IF t.heap THEN heap_move_raw(s, x, dst, t.type, fail)
             ELSE local_move_raw(s, x, dst, t.type)

vt_copy_assign(s, src, dst) ==
    IF ~Running(s) THEN s
    ELSE LET t == TableAt(s.m_vtable[dst])
         IN  IF t.heap THEN heap_assign(s, dst, t.type, ObjValue(s, src, TRUE), "copy_assign")
             ELSE local_assign(s, dst, ObjValue(s, src, FALSE), "copy_assign")

vt_copy_assign_raw(s, x, dst) ==
    IF ~Running(s) THEN s
    ELSE LET t == TableAt(s.m_vtable[dst])
         IN  IF t.heap THEN heap_assign(s, dst, t.type, x.value, "copy_assign")
             ELSE local_assign(s, dst, x.value, "copy_assign")

vt_move_assign(s, src, dst) ==
    IF ~Running(s) THEN s
    ELSE LET t == TableAt(s.m_vtable[dst])
         IN  IF t.heap THEN heap_move_assign(s, src, dst)
             ELSE local_assign(s, dst, ObjValue(s, src, FALSE), "move_assign")

vt_move_assign_raw(s, x, dst) ==
    IF ~Running(s) THEN s
    ELSE LET t == TableAt(s.m_vtable[dst])
         IN  IF t.heap THEN heap_assign(s, dst, t.type, x.value, "move_assign")
             ELSE local_assign(s, dst, x.value, "move_assign")

\* ------------------------------------------------- polymorphic_value_impl
POLYMORPHIC_VALUE_RTTI_SUPPORTED == TRUE

set_vtable(s, c, vt) ==
    IF ~Running(s) THEN s ELSE [Ev(s, "set_vtable") EXCEPT !.m_vtable[c] = vt]

\* The build without the typeid comparison.
typeid_check_disabled(s, x) == s

\* if (typeid(std::decay_t<Derived>) != typeid(d)) throw bad_polymorphic_value
typeid_check(s, x) ==
    IF ~Running(s) THEN s
    ELSE IF POLYMORPHIC_VALUE_RTTI_SUPPORTED /\ x.decl # x.dyn
    THEN Throw(s, "bad_polymorphic_value")
    ELSE s

\* static_assert(AllowAllocations || !store_in_heap<Derived, ...>): the call
\* compiles only for these types.
\* static_assert left out: every call compiles.
Compiles_unchecked(T) == TRUE

Compiles(T) == allow_allocations \/ ~store_in_heap(T)

\* polymorphic_value_impl(Derived&& d)
ctor_value(s, c, x, byMove, fail) ==
    LET s1 == typeid_check(s, x)
        s2 == set_vtable(s1, c, get_vtable(x.decl))
    IN  build(s2, c, x.decl, x.value, IF byMove THEN "move_ctor" ELSE "copy_ctor", fail)

\* polymorphic_value_impl(in_place_type_t<Derived>, Args&&...)
ctor_in_place(s, c, T, v, fail) ==
    LET s1 == set_vtable(s, c, get_vtable(T))
    IN  build(s1, c, T, v, "ctor", fail)

\* polymorphic_value_impl(polymorphic_value_impl const& src)
ctor_copy(s, c, src, fail) ==
    LET s1 == set_vtable(s, c, s.m_vtable[src])
    IN  vt_copy(s1, src, c, fail)

\* polymorphic_value_impl(polymorphic_value_impl&& src)
ctor_move(s, c, src) ==
    LET s1 == set_vtable(s, c, s.m_vtable[src])
    IN  vt_move(s1, src, c)

\* operator=(const&) that switches the table before it destroys.
assign_copy_switches_first(s, d, src, fail) ==
    IF src = d THEN s
    ELSE IF s.m_vtable[d] = s.m_vtable[src]
    THEN vt_copy_assign(s, src, d)
    ELSE LET s1 == set_vtable(s, d, s.m_vtable[src])
             s2 == vt_destroy(s1, d)
         IN  vt_copy(s2, src, d, fail)

\* operator=(polymorphic_value_impl const& src)
assign_copy(s, d, src, fail) ==
    IF src = d THEN s
    ELSE IF s.m_vtable[d] = s.m_vtable[src]
    THEN vt_copy_assign(s, src, d)
    ELSE LET s1 == vt_destroy(s, d)
             s2 == set_vtable(s1, d, s.m_vtable[src])
         IN  vt_copy(s2, src, d, fail)

\* operator=(&&) without `if (this == &o) return *this;`.
assign_move_without_identity_check(s, d, src) ==
    IF s.m_vtable[d] = s.m_vtable[src]
    THEN vt_move_assign(s, src, d)
    ELSE LET s1 == vt_destroy(s, d)
             s2 == set_vtable(s1, d, s.m_vtable[src])
         IN  vt_move(s2, src, d)

\* operator=(polymorphic_value_impl&& src)
assign_move(s, d, src) ==
    IF src = d THEN s
    ELSE IF s.m_vtable[d] = s.m_vtable[src]
    THEN vt_move_assign(s, src, d)
    ELSE LET s1 == vt_destroy(s, d)
             s2 == set_vtable(s1, d, s.m_vtable[src])
         IN  vt_move(s2, src, d)

\* operator=(Derived const&) that never takes the in-place path.
assign_value_copy_always_rebuilds(s, d, x, fail) ==
    LET s0 == typeid_check(s, x)
        s1 == vt_destroy(s0, d)
        s2 == set_vtable(s1, d, get_vtable(x.decl))
    IN  vt_copy_raw(s2, x, d, fail)

\* operator=(Derived const& src)
assign_value_copy(s, d, x, fail) ==
    LET s0 == typeid_check(s, x)
        new_vtable == get_vtable(x.decl)
    IN  IF ~Running(s0) THEN s0
        ELSE IF s0.m_vtable[d] = new_vtable
        THEN vt_copy_assign_raw(s0, x, d)
        ELSE LET s1 == vt_destroy(s0, d)
                 s2 == set_vtable(s1, d, new_vtable)
             IN  vt_copy_raw(s2, x, d, fail)

\* operator=(Derived&&) that builds over the previous object without
\* destroying it.
assign_value_move_without_destroy(s, d, x, fail) ==
    LET s0 == typeid_check(s, x)
        new_vtable == get_vtable(x.decl)
    IN  IF ~Running(s0) THEN s0
        ELSE IF s0.m_vtable[d] = new_vtable
        THEN vt_move_assign_raw(s0, x, d)
        ELSE LET s2 == set_vtable(s0, d, new_vtable)
             IN  vt_move_raw(s2, x, d, fail)

\* operator=(Derived&& src)
assign_value_move(s, d, x, fail) ==
    LET s0 == typeid_check(s, x)
        new_vtable == get_vtable(x.decl)
    IN  IF ~Running(s0) THEN s0
        ELSE IF s0.m_vtable[d] = new_vtable
        THEN vt_move_assign_raw(s0, x, d)
        ELSE LET s1 == vt_destroy(s0, d)
                 s2 == set_vtable(s1, d, new_vtable)
             IN  vt_move_raw(s2, x, d, fail)

\* emplace that assigns in place when the container already holds a Derived.
emplace_reuses_object(s, d, T, v, fail) ==
    IF s.m_vtable[d] = get_vtable(T)
    THEN vt_move_assign_raw(s, [decl |-> T, dyn |-> T, value |-> v], d)
    ELSE LET s1 == vt_destroy(s, d)
             s2 == set_vtable(s1, d, get_vtable(T))
         IN  build(s2, d, T, v, "ctor", fail)

\* emplace<Derived>(args...)
emplace(s, d, T, v, fail) ==
    LET s1 == vt_destroy(s, d)
        s2 == set_vtable(s1, d, get_vtable(T))
    IN  build(s2, d, T, v, "ctor", fail)

\* ~polymorphic_value_impl()
dtor(s, c) == vt_destroy(s, c)

\* get(): the object operator-> and operator* hand out in machine state s.
\* "object" with its type and value when the pointer designates a live object.
getOf(s, c) ==
    IF storage_is_local(s.m_vtable[c])
    THEN \* reinterpret_cast<Base*>(&m_storage.local_buffer)
         IF s.m_storage[c].rep = "local" /\ s.m_storage[c].live
         THEN [kind |-> "object", type |-> s.m_storage[c].type,
               value |-> s.m_storage[c].value]
         ELSE [kind |-> "dead", type |-> "none", value |-> 0]
    ELSE \* static_cast<Base*>(m_storage.heap_buffer)
         IF s.m_storage[c].rep # "heap" THEN [kind |-> "wild", type |-> "none", value |-> 0]
         ELSE IF s.m_storage[c].ptr = 0 THEN [kind |-> "null", type |-> "none", value |-> 0]
         ELSE IF s.heap[s.m_storage[c].ptr].used
         THEN [kind |-> "object", type |-> s.heap[s.m_storage[c].ptr].type,
               value |-> s.heap[s.m_storage[c].ptr].value]
         ELSE [kind |-> "dangling", type |-> "none", value |-> 0]

get(c) == getOf(Machine, c)

\* ------------------------------------------------------------------- client
\* Container c holds an object where its table looks for one, of the type the
\* table was generated for.
HoldsObject(s, c) ==
    /\ s.alive[c] /\ getOf(s, c).kind = "object"
    /\ s.m_vtable[c] = TableAddr(getOf(s, c).type, ~storage_is_local(s.m_vtable[c]))

\* A container the client may read from (copy from, move from).
Readable(c) == HoldsObject(Machine, c)

Failures == {"none", "bad_alloc", "ctor"}

\* `fail` is what the environment does to the build of the new object.  A
\* choice the handler did not meet is no separate run.
Met(r, fail) ==
    /\ fail = "bad_alloc" => r.exc \in {"bad_alloc", "terminate"}
    /\ fail = "ctor" => r.exc \in {"ctor_throw", "terminate"}

\* What the client may call in the current state.
CanConstruct(c, T) == ~halted /\ ~alive[c] /\ Compiles(T)

CanConstructFrom(c, src) == ~halted /\ ~alive[c] /\ Readable(src)

\* poly1 = poly1 reads nothing.
CanAssignFrom(d, src) == ~halted /\ alive[d] /\ (src = d \/ Readable(src))

CanAssign(d, T) == ~halted /\ alive[d] /\ Compiles(T)

CanDestroy(c) == ~halted /\ alive[c]

\* The handler has run from Machine to r.  A container whose constructor
\* threw, or whose destructor ran, is gone.
Finish(r, newAlive, fail) ==
    /\ Met(r, fail)
    /\ alive' = newAlive
    /\ m_vtable' = [c \in Slots |-> IF newAlive[c] THEN r.m_vtable[c] ELSE 0]
    /\ m_storage' = [c \in Slots |-> IF newAlive[c] THEN r.m_storage[c] ELSE EmptyCell]
    /\ heap' = r.heap
    /\ new_minus_delete' = r.new_minus_delete
    /\ ctor_minus_dtor' = r.ctor_minus_dtor
    /\ threw' = (threw \/ r.exc # "none")
    /\ allow_allocations' = allow_allocations
    /\ halted' = r.crashed

Born(c, r) == [alive EXCEPT ![c] = (r.exc = "none" /\ ~r.crashed)]

Ended(c) == [alive EXCEPT ![c] = FALSE]

\* polymorphic_value<Base> poly{obj};  poly{std::move(obj)};
ConstructFromValue(c, x, byMove, fail) ==
    /\ CanConstruct(c, x.decl)
    /\ LET r == ctor_value(Machine, c, x, byMove, fail)
       IN  Finish(r, Born(c, r), fail)

\* polymorphic_value<Base> poly{in_place_type<T>, v};
ConstructInPlace(c, T, v, fail) ==
    /\ CanConstruct(c, T)
    /\ LET r == ctor_in_place(Machine, c, T, v, fail)
       IN  Finish(r, Born(c, r), fail)

\* polymorphic_value<Base> poly2{poly1};
CopyConstruct(c, src, fail) ==
    /\ CanConstructFrom(c, src)
    /\ LET r == ctor_copy(Machine, c, src, fail)
       IN  Finish(r, Born(c, r), fail)

\* polymorphic_value<Base> poly2{std::move(poly1)};
MoveConstruct(c, src) ==
    /\ CanConstructFrom(c, src)
    /\ LET r == ctor_move(Machine, c, src)
       IN  Finish(r, Born(c, r), "none")

\* poly1 = poly2;
CopyAssign(d, src, fail) ==
    /\ CanAssignFrom(d, src)
    /\ Finish(assign_copy(Machine, d, src, fail), alive, fail)

\* poly1 = std::move(poly2);
MoveAssign(d, src) ==
    /\ CanAssignFrom(d, src)
    /\ Finish(assign_move(Machine, d, src), alive, "none")

\* poly = obj;
AssignValueCopy(d, x, fail) ==
    /\ CanAssign(d, x.decl)
    /\ Finish(assign_value_copy(Machine, d, x, fail), alive, fail)

\* poly = std::move(obj);
AssignValueMove(d, x, fail) ==
    /\ CanAssign(d, x.decl)
    /\ Finish(assign_value_move(Machine, d, x, fail), alive, fail)

\* poly.emplace<T>(v);
Emplace(d, T, v, fail) ==
    /\ CanAssign(d, T)
    /\ Finish(emplace(Machine, d, T, v, fail), alive, fail)

\* The container goes out of scope.
Destroy(c) ==
    /\ CanDestroy(c)
    /\ Finish(dtor(Machine, c), Ended(c), "none")

\* No container has been constructed yet.
NoContainers ==
    /\ alive = [c \in Slots |-> FALSE]
    /\ m_vtable = [c \in Slots |-> 0]
    /\ m_storage = [c \in Slots |-> EmptyCell]
    /\ heap = [a \in Addrs |-> FreeBlock]
    /\ new_minus_delete = 0
    /\ ctor_minus_dtor = 0
    /\ threw = FALSE
    /\ halted = FALSE

\* A program whose containers are polymorphic_value<Base>.
Init == allow_allocations = AllowAllocations /\ NoContainers

\* A program whose containers are polymorphic_value<Base, false>.
InitNoAllocations == allow_allocations = FALSE /\ NoContainers

Next ==
    \/ \E c \in Slots, x \in Bare, m \in BOOLEAN, f \in Failures :
          ConstructFromValue(c, x, m, f)
    \/ \E c \in Slots, T \in Types, v \in Values, f \in Failures :
          ConstructInPlace(c, T, v, f)
    \/ \E c \in Slots, src \in Slots, f \in Failures :
          CopyConstruct(c, src, f)
    \/ \E c \in Slots, src \in Slots : MoveConstruct(c, src)
    \/ \E d \in Slots, src \in Slots, f \in Failures :
          CopyAssign(d, src, f)
    \/ \E d \in Slots, src \in Slots : MoveAssign(d, src)
    \/ \E d \in Slots, x \in Bare, f \in Failures :
          AssignValueCopy(d, x, f)
    \/ \E d \in Slots, x \in Bare, f \in Failures :
          AssignValueMove(d, x, f)
    \/ \E d \in Slots, T \in Types, v \in Values, f \in Failures :
          Emplace(d, T, v, f)
    \/ \E c \in Slots : Destroy(c)

Spec == Init /\ [][Next]_vars

SpecNoAllocations == InitNoAllocations /\ [][Next]_vars

\* ------------------------------------------------------------- observations
\* How often event e occurs in the events of a run, and whether every a among
\* them comes before every b.
Count(seq, e) == Cardinality({ i \in DOMAIN seq : seq[i] = e })

Before(seq, a, b) == \A i, j \in DOMAIN seq : (seq[i] = a /\ seq[j] = b) => i < j

\* The events that put an object into a cell, or hand one over.
BuildEvents == {"ctor", "copy_ctor", "move_ctor", "ptr_move", "new"}

\* The containers whose heap_buffer designates block a.
Refs(a) ==
    { c \in Slots : alive[c] /\ ~storage_is_local(m_vtable[c])
                    /\ m_storage[c].rep = "heap" /\ m_storage[c].ptr = a }

\* Container c is a moved-from heap container: heap table, null pointer.
MovedFromHeap(c) == alive[c] /\ get(c).kind = "null"

\* ------------------------------------------------------------------ C1
\* C1: between construction and destruction, dereferencing a container yields
\* a live object, also after the container was the source of a move; stated
\* here for the runs in which no operation has thrown.
C1_DerefYieldsLiveObject ==
    (~halted /\ ~threw) => \A c \in Slots : alive[c] => get(c).kind = "object"

\* ------------------------------------------------------------------ C2
\* The table of container c is the one generated for the type of the object
\* get() hands out, in the storage kind the table itself stands for.
TableMatchesCell(c) ==
    get(c).kind = "object"
        => m_vtable[c] = TableAddr(get(c).type, ~storage_is_local(m_vtable[c]))

\* C2: between operations, the table pointer of every live container is the
\* table generated for the concrete type and the storage kind of the object
\* its cell currently holds.
C2_TableMatchesHeldObject ==
    ~halted => \A c \in Slots : alive[c] => TableMatchesCell(c)

\* ------------------------------------------------------------------ C3
\* Run r reassigned container d without undefined behaviour, and if it
\* returned, d holds an object of value v.
Reassigned(r, d, v) ==
    /\ r.ub = "none"
    /\ r.exc = "none" => (HoldsObject(r, d) /\ getOf(r, d).value = v)

\* C3: a container that was the source of a move may be destroyed or
\* reassigned: destruction, assignment from another container, assignment
\* from a bare value and emplace read and assign through no missing object,
\* and after a reassignment that returns the container holds a live object
\* equal to the value assigned.
C3_MovedFromMayBeReassigned ==
    \A d \in Slots :
        (~halted /\ MovedFromHeap(d)) =>
            /\ dtor(Machine, d).ub = "none"
            /\ \A src \in Slots \ {d}, f \in Failures :
                  CanAssignFrom(d, src) =>
                      /\ Reassigned(assign_copy(Machine, d, src, f), d, get(src).value)
                      /\ Reassigned(assign_move(Machine, d, src), d, get(src).value)
            /\ \A x \in Bare, f \in Failures :
                  CanAssign(d, x.decl) =>
                      /\ Reassigned(assign_value_copy(Machine, d, x, f), d, x.value)
                      /\ Reassigned(assign_value_move(Machine, d, x, f), d, x.value)
            /\ \A T \in Types, v \in Values, f \in Failures :
                  CanAssign(d, T) => Reassigned(emplace(Machine, d, T, v, f), d, v)

\* ------------------------------------------------------------------ C4
\* C4: every heap block that is allocated and not yet freed is referenced by
\* the cell of exactly one live container, so no two live containers share a
\* block.
C4_HeapBlockHasOneOwner ==
    ~halted => \A a \in Addrs : heap[a].used => Cardinality(Refs(a)) = 1

\* ------------------------------------------------------------------ C5
DestroyFaults ==
    {"double_free", "destroy_dead_object", "delete_wild_pointer", "delete_as_wrong_type"}

DestroysSafely(r) == r.ub \notin DestroyFaults

\* No operation the client can call in the current state destroys an object
\* that is not there.
EveryRunDestroysSafely ==
    /\ \A c \in Slots, x \in Bare, m \in BOOLEAN, f \in Failures :
          CanConstruct(c, x.decl) => DestroysSafely(ctor_value(Machine, c, x, m, f))
    /\ \A c \in Slots, T \in Types, v \in Values, f \in Failures :
          CanConstruct(c, T) => DestroysSafely(ctor_in_place(Machine, c, T, v, f))
    /\ \A c \in Slots, src \in Slots, f \in Failures :
          CanConstructFrom(c, src) =>
              /\ DestroysSafely(ctor_copy(Machine, c, src, f))
              /\ DestroysSafely(ctor_move(Machine, c, src))
    /\ \A d \in Slots, src \in Slots, f \in Failures :
          CanAssignFrom(d, src) =>
              /\ DestroysSafely(assign_copy(Machine, d, src, f))
              /\ DestroysSafely(assign_move(Machine, d, src))
    /\ \A d \in Slots, x \in Bare, f \in Failures :
          CanAssign(d, x.decl) =>
              /\ DestroysSafely(assign_value_copy(Machine, d, x, f))
              /\ DestroysSafely(assign_value_move(Machine, d, x, f))
    /\ \A d \in Slots, T \in Types, v \in Values, f \in Failures :
          CanAssign(d, T) => DestroysSafely(emplace(Machine, d, T, v, f))
    /\ \A c \in Slots : CanDestroy(c) => DestroysSafely(dtor(Machine, c))

\* ~polymorphic_value_impl() of container c destroys the one object c holds,
\* and nothing when c is a moved-from heap container.
DestroysWhatItHolds(c) ==
    LET r == dtor(Machine, c)
        freed == IF storage_is_local(m_vtable[c]) THEN 0 ELSE 1
    IN  /\ Readable(c) =>
              /\ Count(r.log, "dtor") = 1
              /\ Count(r.log, "delete") = freed
              /\ r.ctor_minus_dtor = ctor_minus_dtor - 1
              /\ r.new_minus_delete = new_minus_delete - freed
        /\ MovedFromHeap(c) =>
              /\ r.log = <<>>
              /\ r.heap = heap
              /\ r.ctor_minus_dtor = ctor_minus_dtor
              /\ r.new_minus_delete = new_minus_delete

AllDestroyed == \A c \in Slots : ~alive[c]

\* C5: in a run in which nothing has thrown, no operation destroys an object
\* twice or one that is not there; the destructor of a container destroys
\* exactly the one object it holds, and none when the container is a
\* moved-from heap container; the objects constructed and not yet destroyed
\* are the ones the containers hold, the blocks allocated and not yet freed
\* are the ones in use, and so once every container is destroyed every object
\* has been destroyed and every block freed.
C5_DestroyedExactlyOnce ==
    (~threw /\ ~halted) =>
        /\ EveryRunDestroysSafely
        /\ \A c \in Slots : CanDestroy(c) => DestroysWhatItHolds(c)
        /\ ctor_minus_dtor = Cardinality({ c \in Slots : Readable(c) })
        /\ new_minus_delete = Cardinality({ a \in Addrs : heap[a].used })
        /\ AllDestroyed =>
              /\ ctor_minus_dtor = 0
              /\ new_minus_delete = 0
              /\ \A a \in Addrs : ~heap[a].used

\* Nothing has thrown, and the only container left is a moved-from heap
\* container: the object it held went with the other container, and its
\* destructor ends the run with everything destroyed and freed.
C5_Witness ==
    /\ ~threw /\ ~halted
    /\ \E c \in Slots :
          /\ MovedFromHeap(c)
          /\ \A o \in Slots \ {c} : ~alive[o]
          /\ dtor(Machine, c).log = <<>>
          /\ ctor_minus_dtor = 0 /\ new_minus_delete = 0

\* ------------------------------------------------------------------ C6
\* Run r assigned a value described by table vt onto container d: the object
\* d held was destroyed once, then the table was switched to vt, and only
\* then was the new object constructed in, or handed over to, d.
DestroySwitchBuild(r, d, vt) ==
    /\ Count(r.log, "dtor") = 1
    /\ Count(r.log, "set_vtable") = 1
    /\ Before(r.log, "dtor", "set_vtable")
    /\ \A e \in BuildEvents :
          Before(r.log, "dtor", e) /\ Before(r.log, "set_vtable", e)
    /\ r.m_vtable[d] = vt
    /\ (r.exc = "none" /\ r.ub = "none") =>
          /\ Count(r.log, "copy_ctor") + Count(r.log, "move_ctor")
                + Count(r.log, "ptr_move") = 1
          /\ HoldsObject(r, d)

\* C6: when a container or bare value of type A is copy- or move-assigned
\* onto a container holding an object of another type B, the B object is
\* destroyed exactly once, the table is switched to A's table after that, and
\* only then is the A object constructed in, or transferred into, the
\* destination.
C6_DestroySwitchBuild ==
    \A d \in Slots :
        Readable(d) =>
            /\ \A src \in Slots \ {d}, f \in Failures :
                  (CanAssignFrom(d, src) /\ m_vtable[src] # m_vtable[d]) =>
                      /\ DestroySwitchBuild(assign_copy(Machine, d, src, f),
                                            d, m_vtable[src])
                      /\ DestroySwitchBuild(assign_move(Machine, d, src),
                                            d, m_vtable[src])
            /\ \A x \in Bare, f \in Failures :
                  (/\ CanAssign(d, x.decl) /\ x.decl = x.dyn
                   /\ get_vtable(x.decl) # m_vtable[d]) =>
                      /\ DestroySwitchBuild(assign_value_copy(Machine, d, x, f),
                                            d, get_vtable(x.decl))
                      /\ DestroySwitchBuild(assign_value_move(Machine, d, x, f),
                                            d, get_vtable(x.decl))

\* A container holding a heap object is move-assigned from a container
\* holding a local object: the run destroys and frees the heap object,
\* switches the table and move-constructs into the local buffer.
C6_Witness ==
    \E d \in Slots, src \in Slots :
        /\ Readable(d) /\ CanAssignFrom(d, src) /\ m_vtable[src] # m_vtable[d]
        /\ assign_move(Machine, d, src).log
              = <<"dtor", "delete", "set_vtable", "move_ctor">>

\* ------------------------------------------------------------------ C7
\* Run r assigned in place onto container d: it ran one assignment (or one
\* pointer swap) and no destructor, constructor, allocation or deallocation,
\* and left the table pointer of d alone.
AssignedInPlace(r, d) ==
    /\ r.exc = "none" /\ r.ub = "none"
    /\ Count(r.log, "dtor") = 0
    /\ Count(r.log, "ctor") + Count(r.log, "copy_ctor") + Count(r.log, "move_ctor") = 0
    /\ Count(r.log, "new") = 0 /\ Count(r.log, "delete") = 0
    /\ Count(r.log, "copy_assign") + Count(r.log, "move_assign")
          + Count(r.log, "ptr_swap") = 1
    /\ Count(r.log, "set_vtable") = 0
    /\ r.m_vtable[d] = m_vtable[d]
    /\ r.new_minus_delete = new_minus_delete
    /\ r.ctor_minus_dtor = ctor_minus_dtor
    /\ \A a \in Addrs : r.heap[a].used = heap[a].used
    /\ HoldsObject(r, d)

\* C7: when the table of the destination equals the table describing the
\* incoming value, copy- or move-assignment from a container or a bare value
\* assigns in place: no destructor, no constructor, no allocation and no
\* deallocation runs, and the destination's table pointer is unchanged.
C7_SameTableAssignsInPlace ==
    \A d \in Slots :
        Readable(d) =>
            /\ \A src \in Slots \ {d}, f \in Failures :
                  (CanAssignFrom(d, src) /\ m_vtable[src] = m_vtable[d]) =>
                      /\ AssignedInPlace(assign_copy(Machine, d, src, f), d)
                      /\ AssignedInPlace(assign_move(Machine, d, src), d)
            /\ \A x \in Bare, f \in Failures :
                  (/\ CanAssign(d, x.decl) /\ x.decl = x.dyn
                   /\ get_vtable(x.decl) = m_vtable[d]) =>
                      /\ AssignedInPlace(assign_value_copy(Machine, d, x, f), d)
                      /\ AssignedInPlace(assign_value_move(Machine, d, x, f), d)

\* A container holding a heap object is copy-assigned a bare value of the
\* same type: the run is the one copy assignment.
C7_Witness ==
    \E d \in Slots, x \in Bare :
        /\ Readable(d) /\ ~storage_is_local(m_vtable[d])
        /\ CanAssign(d, x.decl) /\ get_vtable(x.decl) = m_vtable[d]
        /\ get(d).value # x.value
        /\ assign_value_copy(Machine, d, x, "none").log = <<"copy_assign">>
        /\ getOf(assign_value_copy(Machine, d, x, "none"), d).value = x.value

\* ------------------------------------------------------------------ C8
\* Run r changed nothing and ran nothing.
NoOp(r) == r = Machine

\* C8: copy- or move-assigning a container to itself changes nothing: table
\* pointer, cell, object value and free store stay as they are, and no
\* constructor, assignment operator, destructor, allocation or deallocation
\* runs.
C8_SelfAssignIsNoOp ==
    \A d \in Slots, f \in Failures :
        CanAssignFrom(d, d) =>
            /\ NoOp(assign_copy(Machine, d, d, f))
            /\ NoOp(assign_move(Machine, d, d))

\* A container holding a heap object can be assigned to itself.
C8_Witness ==
    \E d \in Slots :
        /\ CanAssignFrom(d, d) /\ Readable(d) /\ ~storage_is_local(m_vtable[d])
        /\ assign_move(Machine, d, d).log = <<>>

\* ------------------------------------------------------------------ C9
\* The bare values whose dynamic type is not their declared type.
Sliced == { x \in Bare : x.decl # x.dyn }

\* Run r threw the slicing error and did nothing else.
OnlyThrewSlicingError(r) ==
    /\ r.exc = "bad_polymorphic_value"
    /\ r = [Machine EXCEPT !.exc = "bad_polymorphic_value", !.log = <<"throw">>]

\* C9: with RTTI, constructing or assigning from a bare value whose dynamic
\* type differs from its declared type throws the slicing error before
\* anything is destroyed, built, moved, allocated or freed: every container
\* keeps its table and its object.
C9_SlicingLeavesNoTrace ==
    POLYMORPHIC_VALUE_RTTI_SUPPORTED =>
        \A c \in Slots, x \in Sliced, m \in BOOLEAN, f \in Failures :
            /\ CanConstruct(c, x.decl) =>
                  OnlyThrewSlicingError(ctor_value(Machine, c, x, m, f))
            /\ CanAssign(c, x.decl) =>
                  /\ OnlyThrewSlicingError(assign_value_copy(Machine, c, x, f))
                  /\ OnlyThrewSlicingError(assign_value_move(Machine, c, x, f))

\* A container that holds an object is move-assigned a sliced value.
C9_Witness ==
    \E d \in Slots, x \in Sliced :
        /\ Readable(d) /\ CanAssign(d, x.decl)
        /\ assign_value_move(Machine, d, x, "none").exc = "bad_polymorphic_value"

\* ------------------------------------------------------------------ C10
\* The build of the new object failed: operator new threw bad_alloc or the
\* constructor threw.
BuildFailures == {"bad_alloc", "ctor_throw"}

\* The caller has caught the exception that left run r.
Caught(r) == [r EXCEPT !.exc = "none", !.log = <<>>]

\* Run r, whose build failed, left container d holding a live object that its
\* table describes, so that the destructor of d then destroys a live object.
FailedBuildKeepsObject(r, d) ==
    r.exc \in BuildFailures =>
        /\ HoldsObject(r, d)
        /\ DestroysSafely(dtor(Caught(r), d))

\* C10: when the build of the new object fails during a copy assignment from a
\* container or a bare value, or during emplace, the exception reaches the
\* caller and the destination still holds a live object that its table
\* describes; its later destruction destroys a live object and frees no block
\* twice.
C10_BuildFailureKeepsObject ==
    \A d \in Slots :
        Readable(d) =>
            /\ \A src \in Slots \ {d}, f \in Failures :
                  CanAssignFrom(d, src) =>
                      FailedBuildKeepsObject(assign_copy(Machine, d, src, f), d)
            /\ \A x \in Bare, f \in Failures :
                  CanAssign(d, x.decl) =>
                      FailedBuildKeepsObject(assign_value_copy(Machine, d, x, f), d)
            /\ \A T \in Types, v \in Values, f \in Failures :
                  CanAssign(d, T) =>
                      FailedBuildKeepsObject(emplace(Machine, d, T, v, f), d)

\* ------------------------------------------------------------------ C11
\* Run r called operator new `n` times and operator delete `d` times.
Allocator(r, n, d) ==
    /\ Count(r.log, "new") = n
    /\ Count(r.log, "delete") = d
    /\ r.new_minus_delete = new_minus_delete + n - d

\* Run r constructed container c; the destructor of c runs right after it.
ThenDestroyed(r, c) == dtor(Caught(r), c)

\* Run r constructed a container of an inline type in c: neither the
\* construction nor the destruction that follows touches the allocator.
InlineLifetime(r, c) ==
    /\ Allocator(r, 0, 0)
    /\ (r.exc = "none" /\ r.ub = "none") =>
          /\ storage_is_local(r.m_vtable[c])
          /\ Count(ThenDestroyed(r, c).log, "new") = 0
          /\ Count(ThenDestroyed(r, c).log, "delete") = 0
          /\ Count(ThenDestroyed(r, c).log, "dtor") = 1
          /\ ThenDestroyed(r, c).new_minus_delete = new_minus_delete
          /\ ThenDestroyed(r, c).ub = "none"

\* C11: for every concrete type that is stored inline, constructing a
\* container holding it, from a value or in place, and destroying that
\* container calls operator new and operator delete zero times.
C11_InlineNeverAllocates ==
    \A c \in Slots, f \in Failures :
        /\ \A x \in Bare, m \in BOOLEAN :
              (CanConstruct(c, x.decl) /\ ~store_in_heap(x.decl)) =>
                  InlineLifetime(ctor_value(Machine, c, x, m, f), c)
        /\ \A T \in Types, v \in Values :
              (CanConstruct(c, T) /\ ~store_in_heap(T)) =>
                  InlineLifetime(ctor_in_place(Machine, c, T, v, f), c)

\* While the other container holds a heap object, a container of an inline
\* type is constructed in place and destroyed again.
C11_Witness ==
    \E c \in Slots, T \in Types, v \in Values :
        /\ CanConstruct(c, T) /\ ~store_in_heap(T)
        /\ new_minus_delete = 1
        /\ ctor_in_place(Machine, c, T, v, "none").log = <<"set_vtable", "ctor">>
        /\ ThenDestroyed(ctor_in_place(Machine, c, T, v, "none"), c).log = <<"dtor">>

\* ------------------------------------------------------------------ C12
\* Run r constructed a container of a heap type in c with one allocation and
\* no deallocation; the destruction that follows is one deallocation.
HeapLifetime(r, c) ==
    (r.exc = "none" /\ r.ub = "none") =>
        /\ Allocator(r, 1, 0)
        /\ ~storage_is_local(r.m_vtable[c])
        /\ Count(ThenDestroyed(r, c).log, "new") = 0
        /\ Count(ThenDestroyed(r, c).log, "delete") = 1
        /\ Count(ThenDestroyed(r, c).log, "dtor") = 1
        /\ ThenDestroyed(r, c).new_minus_delete = new_minus_delete
        /\ ThenDestroyed(r, c).ub = "none"

\* C12: for every concrete type that is stored on the heap, constructing a
\* container holding it calls operator new once and operator delete not at
\* all, and destroying a container that holds such an object (not moved from)
\* calls operator delete once.
C12_HeapAllocatesOnce ==
    /\ \A c \in Slots, f \in Failures :
          /\ \A x \in Bare, m \in BOOLEAN :
                (CanConstruct(c, x.decl) /\ store_in_heap(x.decl)) =>
                    HeapLifetime(ctor_value(Machine, c, x, m, f), c)
          /\ \A T \in Types, v \in Values :
                (CanConstruct(c, T) /\ store_in_heap(T)) =>
                    HeapLifetime(ctor_in_place(Machine, c, T, v, f), c)
    /\ \A c \in Slots :
          (CanDestroy(c) /\ Readable(c) /\ ~storage_is_local(m_vtable[c])) =>
              /\ Count(dtor(Machine, c).log, "delete") = 1
              /\ Count(dtor(Machine, c).log, "new") = 0
              /\ dtor(Machine, c).new_minus_delete = new_minus_delete - 1

\* While the other container holds a heap object, a container of a heap type
\* is constructed from a value: operator new, then
\* the copy constructor; its destruction is the destructor, then operator
\* delete.
C12_Witness ==
    \E c \in Slots, x \in Bare :
        /\ CanConstruct(c, x.decl) /\ store_in_heap(x.decl)
        /\ new_minus_delete = 1
        /\ ctor_value(Machine, c, x, FALSE, "none").log
              = <<"set_vtable", "new", "copy_ctor">>
        /\ ThenDestroyed(ctor_value(Machine, c, x, FALSE, "none"), c).log
              = <<"dtor", "delete">>

\* ------------------------------------------------------------------ C13
Returned(r) == r.exc = "none" /\ r.ub = "none"

\* Run r copied the contained object once and moved nothing.
OneCopyNoMove(r) ==
    /\ Count(r.log, "copy_ctor") + Count(r.log, "copy_assign") = 1
    /\ Count(r.log, "move_ctor") + Count(r.log, "move_assign") = 0
    /\ Count(r.log, "ptr_move") + Count(r.log, "ptr_swap") = 0

\* Container src holds its object on the heap.
HeapHeld(src) == Readable(src) /\ ~storage_is_local(m_vtable[src])

\* Run r copied container src: one copy, no move, and one allocation when the
\* source is heap-stored.
CopiedAllocatingForHeap(r, src) ==
    Returned(r) =>
        /\ OneCopyNoMove(r)
        /\ HeapHeld(src) => Count(r.log, "new") = 1

\* C13 as stated: copying a container, by copy construction or by copy
\* assignment onto any destination, copies the contained object exactly once,
\* never moves it, and allocates exactly once when the source is heap-stored.
C13_CopyAllocatesForHeapSource ==
    \A src \in Slots : \A c \in Slots \ {src}, f \in Failures :
        /\ CanConstructFrom(c, src) =>
              CopiedAllocatingForHeap(ctor_copy(Machine, c, src, f), src)
        /\ CanAssignFrom(c, src) =>
              CopiedAllocatingForHeap(assign_copy(Machine, c, src, f), src)

\* Run r copied container src with `n` allocations.
CopiedWith(r, n) ==
    Returned(r) => (OneCopyNoMove(r) /\ Count(r.log, "new") = n)

\* C13 amended: a copy of a container (copy construction, or copy assignment
\* onto any destination) that returns copies the contained object exactly
\* once and never moves it; it allocates exactly once when the source is heap-stored
\* and the copy is a construction (copy construction, or copy assignment onto
\* a destination of another table), and not at all when the source is inline
\* or the copy is an assignment in place (destination of the same table).
C13_CopyAllocatesWhenItBuilds ==
    \A src \in Slots : \A c \in Slots \ {src}, f \in Failures :
        /\ CanConstructFrom(c, src) =>
              CopiedWith(ctor_copy(Machine, c, src, f),
                         IF HeapHeld(src) THEN 1 ELSE 0)
        /\ CanAssignFrom(c, src) =>
              CopiedWith(assign_copy(Machine, c, src, f),
                         IF HeapHeld(src) /\ m_vtable[c] # m_vtable[src]
                         THEN 1 ELSE 0)

\* A container holding a heap object is copy-assigned from another one
\* holding a heap object of the same type: one copy assignment, no allocation.
C13_Witness ==
    \E src \in Slots : \E c \in Slots \ {src} :
        /\ CanAssignFrom(c, src) /\ Readable(c) /\ HeapHeld(src)
        /\ m_vtable[c] = m_vtable[src]
        /\ get(c).value # get(src).value
        /\ assign_copy(Machine, c, src, "none").log = <<"copy_assign">>

\* ------------------------------------------------------------------ C14
\* Container src holds its object inline.
InlineHeld(src) == Readable(src) /\ storage_is_local(m_vtable[src])

\* Run r moved the object of the inline-held container src once, touched the
\* allocator not at all, and left src holding an object that its destructor
\* destroys once.
MovedInline(r, src) ==
    /\ Returned(r)
    /\ Count(r.log, "move_ctor") + Count(r.log, "move_assign") = 1
    /\ Count(r.log, "copy_ctor") + Count(r.log, "copy_assign") = 0
    /\ Allocator(r, 0, 0)
    /\ HoldsObject(r, src)
    /\ r.m_vtable[src] = m_vtable[src]
    /\ Returned(ThenDestroyed(r, src))
    /\ Count(ThenDestroyed(r, src).log, "dtor") = 1
    /\ Count(ThenDestroyed(r, src).log, "delete") = 0

\* C14: moving an inline-held container, by move construction or by move
\* assignment onto a destination of the same concrete type, moves the
\* contained object exactly once (move construction or move assignment),
\* copies nothing, allocates and deallocates nothing, and leaves the source
\* holding a live object that is destroyed exactly once with the source.
C14_InlineMoveMovesOnce ==
    \A src \in Slots : \A c \in Slots \ {src} :
        /\ (CanConstructFrom(c, src) /\ InlineHeld(src)) =>
              MovedInline(ctor_move(Machine, c, src), src)
        /\ (CanAssignFrom(c, src) /\ InlineHeld(src) /\ Readable(c)
              /\ m_vtable[c] = m_vtable[src]) =>
              MovedInline(assign_move(Machine, c, src), src)

\* A container holding an inline object is move-assigned from another one
\* holding an inline object of the same type and another value; the source is
\* destroyed afterwards.
C14_Witness ==
    \E src \in Slots : \E c \in Slots \ {src} :
        /\ InlineHeld(src)
        /\ CanAssignFrom(c, src) /\ Readable(c)
        /\ m_vtable[c] = m_vtable[src]
        /\ get(c).value # get(src).value
        /\ assign_move(Machine, c, src).log = <<"move_assign">>
        /\ ThenDestroyed(assign_move(Machine, c, src), src).log = <<"dtor">>

\* ------------------------------------------------------------------ C15
\* Run r transferred or swapped a pointer once, moved and copied no object,
\* allocated nothing and deallocated `d` times.
PointerOnly(r, d) ==
    /\ Count(r.log, "ptr_move") + Count(r.log, "ptr_swap") = 1
    /\ Count(r.log, "move_ctor") + Count(r.log, "move_assign") = 0
    /\ Count(r.log, "copy_ctor") + Count(r.log, "copy_assign") = 0
    /\ Allocator(r, 0, d)

\* C15 as stated: moving a heap-held container, by move construction or by
\* move assignment onto any destination, moves and copies no object and
\* allocates and deallocates nothing; only a pointer is transferred or swapped.
C15_HeapMoveNeverDeallocates ==
    \A src \in Slots : \A c \in Slots \ {src} :
        /\ (CanConstructFrom(c, src) /\ HeapHeld(src)) =>
              (Returned(ctor_move(Machine, c, src))
                  => PointerOnly(ctor_move(Machine, c, src), 0))
        /\ (CanAssignFrom(c, src) /\ HeapHeld(src)) =>
              (Returned(assign_move(Machine, c, src))
                  => PointerOnly(assign_move(Machine, c, src), 0))

\* Destination c holds a heap object of another type than src's: a move
\* assignment from src destroys it before it takes src's pointer.
HoldsOtherHeapObject(c, src) ==
    /\ HeapHeld(c)
    /\ m_vtable[c] # m_vtable[src]

\* C15 amended: a move of a heap-held container (move construction, or move
\* assignment onto any destination) that returns moves and copies no object
\* and allocates nothing; a pointer is transferred or swapped; it deallocates
\* nothing, except that a move assignment onto a destination holding a heap
\* object of another type deallocates that object, exactly once.  The move
\* returns whenever the destination holds an object or has been moved from.
C15_HeapMoveTransfersPointer ==
    \A src \in Slots : \A c \in Slots \ {src} :
        /\ (CanConstructFrom(c, src) /\ HeapHeld(src)) =>
              /\ Returned(ctor_move(Machine, c, src))
              /\ PointerOnly(ctor_move(Machine, c, src), 0)
        /\ (CanAssignFrom(c, src) /\ HeapHeld(src)) =>
              /\ Returned(assign_move(Machine, c, src)) =>
                    PointerOnly(assign_move(Machine, c, src),
                                IF HoldsOtherHeapObject(c, src) THEN 1 ELSE 0)
              /\ (Readable(c) \/ MovedFromHeap(c)) =>
                    Returned(assign_move(Machine, c, src))

\* A container holding a heap object is move-assigned from one holding a heap
\* object of another type: the old object is destroyed and freed, then the
\* pointer is transferred.
C15_Witness ==
    \E src \in Slots : \E c \in Slots \ {src} :
        /\ CanAssignFrom(c, src) /\ HeapHeld(src)
        /\ HoldsOtherHeapObject(c, src)
        /\ assign_move(Machine, c, src).log
              = <<"dtor", "delete", "set_vtable", "ptr_move">>

\* ------------------------------------------------------------------ C16
\* Deallocations of a cross-type assignment onto d: one when d's previous
\* object is heap-stored, none when it is inline.
Frees(d) == IF HeapHeld(d) THEN 1 ELSE 0

\* Allocations of a build of an object of the type of table vt.
Allocates(vt) == IF storage_is_local(vt) THEN 0 ELSE 1

\* Run r of a cross-type assignment onto d did n allocations and as many
\* deallocations as d's previous storage kind asks for.
Accounted(r, d, n) == Returned(r) => Allocator(r, n, Frees(d))

\* C16: a cross-type assignment onto a container frees once if the
\* destination's previous object was heap-stored and not at all if it was
\* inline; it allocates once if the incoming type is heap-stored and the
\* source is copied or is a bare value (copied or moved), and not at all if
\* the incoming type is inline or the source is a moved heap-held container.
C16_AccountingFollowsStorageKinds ==
    \A d \in Slots : Readable(d) =>
        /\ \A src \in Slots \ {d}, f \in Failures :
              (CanAssignFrom(d, src) /\ m_vtable[d] # m_vtable[src]) =>
                 /\ Accounted(assign_copy(Machine, d, src, f), d,
                              Allocates(m_vtable[src]))
                 /\ Accounted(assign_move(Machine, d, src), d, 0)
                 /\ Returned(assign_move(Machine, d, src))
                 /\ Returned(assign_copy(Machine, d, src, "none"))
        /\ \A x \in Bare, f \in Failures :
              (CanAssign(d, x.decl) /\ m_vtable[d] # get_vtable(x.decl)) =>
                 /\ Accounted(assign_value_copy(Machine, d, x, f), d,
                              Allocates(get_vtable(x.decl)))
                 /\ Accounted(assign_value_move(Machine, d, x, f), d,
                              Allocates(get_vtable(x.decl)))
                 /\ x \notin Sliced => Returned(assign_value_move(Machine, d, x, "none"))

\* A container holding a heap object is assigned a bare value of another
\* heap-stored type by move: one deallocation, then one allocation.
C16_Witness ==
    \E d \in Slots, x \in Bare :
        /\ CanAssign(d, x.decl) /\ HeapHeld(d)
        /\ m_vtable[d] # get_vtable(x.decl)
        /\ ~storage_is_local(get_vtable(x.decl))
        /\ assign_value_move(Machine, d, x, "none").log
              = <<"dtor", "delete", "set_vtable", "new", "move_ctor">>

\* ------------------------------------------------------------------ C17
\* Run r obtained no block from the allocator and left every container it
\* left alive with a table of inline storage.
StaysInline(r) ==
    /\ Count(r.log, "new") = 0
    /\ r.new_minus_delete = 0
    /\ \A c \in Slots : storage_is_local(r.m_vtable[c])
    /\ \A c \in Slots : r.m_storage[c].rep # "heap"

\* Every call the client can make in the current state stays inline.
EveryRunStaysInline ==
    /\ \A c \in Slots, x \in Bare, m \in BOOLEAN, f \in Failures :
          CanConstruct(c, x.decl) =>
             /\ StaysInline(ctor_value(Machine, c, x, m, f))
             /\ StaysInline(ctor_in_place(Machine, c, x.decl, x.value, f))
    /\ \A c \in Slots, src \in Slots, f \in Failures :
          CanConstructFrom(c, src) =>
             /\ StaysInline(ctor_copy(Machine, c, src, f))
             /\ StaysInline(ctor_move(Machine, c, src))
    /\ \A d \in Slots, src \in Slots, f \in Failures :
          CanAssignFrom(d, src) =>
             /\ StaysInline(assign_copy(Machine, d, src, f))
             /\ StaysInline(assign_move(Machine, d, src))
    /\ \A d \in Slots, x \in Bare, f \in Failures :
          CanAssign(d, x.decl) =>
             /\ StaysInline(assign_value_copy(Machine, d, x, f))
             /\ StaysInline(assign_value_move(Machine, d, x, f))
             /\ StaysInline(emplace(Machine, d, x.decl, x.value, f))
    /\ \A c \in Slots : CanDestroy(c) => StaysInline(dtor(Machine, c))

\* C17: in a program whose containers have AllowAllocations = false, every
\* construction from a value, construction in place, assignment of a bare
\* value and emplace that names a heap-stored type is rejected; every
\* container's storage is inline and nothing is ever allocated, whatever
\* sequence of operations ran, copies, moves and assignments between
\* containers included.
C17_NoAllocationsWhenDisallowed ==
    ~allow_allocations =>
        /\ \A T \in Types : store_in_heap(T) =>
              /\ ~Compiles(T)
              /\ \A c \in Slots : ~CanConstruct(c, T) /\ ~CanAssign(c, T)
        /\ \A c \in Slots : alive[c] =>
              /\ storage_is_local(m_vtable[c])
              /\ m_storage[c].rep = "local"
        /\ new_minus_delete = 0
        /\ \A a \in Addrs : ~heap[a].used
        /\ EveryRunStaysInline

\* With allocations disallowed, two containers hold inline objects of
\* different types, the larger one filling the inline buffer exactly; one is
\* copy-assigned onto the other, and a heap-stored type is rejected.
C17_Witness ==
    /\ ~allow_allocations
    /\ \E T \in Types : store_in_heap(T) /\ ~Compiles(T)
    /\ \E d \in Slots : \E src \in Slots \ {d} :
          /\ Readable(d) /\ Readable(src) /\ CanAssignFrom(d, src)
          /\ SizeOf(get(src).type) = SboSize
          /\ assign_copy(Machine, d, src, "none").log
                = <<"dtor", "set_vtable", "copy_ctor">>

\* ------------------------------------------------------------------ C18
\* Type T fits the inline buffer and can be relocated without an exception.
FitsInline(T) ==
    /\ SizeOf(T) <= SboSize
    /\ AlignOf(T) <= SboAlignment
    /\ is_nothrow_move_constructible(T)

\* Container c holds its object in the storage kind decided for the
\* object's type.
StoredAsDecided(s, c) ==
    LET T == getOf(s, c).type
    IN  /\ storage_is_local(s.m_vtable[c]) <=> FitsInline(T)
        /\ s.m_storage[c].rep = (IF FitsInline(T) THEN "local" ELSE "heap")
        /\ s.m_vtable[c] = get_vtable(T)

\* C18: the storage kind is a function of the type and of the configured
\* capacity and alignment alone: inline exactly when the size is at most the
\* capacity, the alignment at most the inline alignment and the move
\* constructor cannot throw, heap in every other case; every object of a
\* type, in whichever container and by whichever operation it was built, is
\* held in the kind decided for the type.
C18_StorageKindDecidedByType ==
    /\ \A T \in Types :
          /\ ~store_in_heap(T) <=> FitsInline(T)
          /\ storage_is_local(get_vtable(T)) <=> FitsInline(T)
    /\ \A c \in Slots : Readable(c) => StoredAsDecided(Machine, c)
    /\ \A c \in Slots, x \in Bare, m \in BOOLEAN, f \in Failures :
          CanConstruct(c, x.decl) =>
             /\ Returned(ctor_value(Machine, c, x, m, f))
                   => StoredAsDecided(ctor_value(Machine, c, x, m, f), c)
             /\ Returned(ctor_in_place(Machine, c, x.decl, x.value, f))
                   => StoredAsDecided(ctor_in_place(Machine, c, x.decl, x.value, f), c)
    /\ \A d \in Slots, x \in Bare, f \in Failures :
          CanAssign(d, x.decl) =>
             /\ (Readable(d) /\ Returned(assign_value_copy(Machine, d, x, f)))
                   => StoredAsDecided(assign_value_copy(Machine, d, x, f), d)
             /\ (Readable(d) /\ Returned(emplace(Machine, d, x.decl, x.value, f)))
                   => StoredAsDecided(emplace(Machine, d, x.decl, x.value, f), d)

\* One container holds an object that fills the inline buffer exactly, inline;
\* the other holds an object that is small and movable without exceptions but
\* over-aligned, on the heap.
C18_Witness ==
    \E c \in Slots : \E d \in Slots \ {c} :
        /\ Readable(c) /\ Readable(d)
        /\ SizeOf(get(c).type) = SboSize
        /\ storage_is_local(m_vtable[c])
        /\ SizeOf(get(d).type) < SboSize
        /\ is_nothrow_move_constructible(get(d).type)
        /\ AlignOf(get(d).type) > SboAlignment
        /\ ~storage_is_local(m_vtable[d])

\* ------------------------------------------------------------------ C19
\* Run r of emplace<T>(v) on d destroyed d's object once, before anything
\* else; when it returned it built a T holding v afterwards, switched to T's
\* table, and allocated and deallocated as the two storage kinds ask for.
Emplaced(r, d, T, v) ==
    /\ r.ub = "none"
    /\ Count(r.log, "dtor") = 1
    /\ r.log[1] = "dtor"
    /\ Returned(r) =>
          /\ Count(r.log, "ctor") = 1
          /\ Before(r.log, "dtor", "ctor")
          /\ Before(r.log, "delete", "new")
          /\ r.m_vtable[d] = get_vtable(T)
          /\ HoldsObject(r, d)
          /\ getOf(r, d).type = T /\ getOf(r, d).value = v
          /\ Allocator(r, Allocates(get_vtable(T)), Frees(d))

\* C19: emplace<T>(args) destroys the container's current object exactly
\* once, also when the current type is already T, then builds a new T from
\* args; afterwards the table is T's, exactly one allocation happened iff T
\* is heap-stored and exactly one deallocation iff the previous object was
\* heap-stored.
C19_EmplaceDestroysThenBuilds ==
    \A d \in Slots, T \in Types, v \in Values, f \in Failures :
        (CanAssign(d, T) /\ Readable(d)) =>
            /\ Emplaced(emplace(Machine, d, T, v, f), d, T, v)
            /\ Returned(emplace(Machine, d, T, v, "none"))
                  \/ (store_in_heap(T) /\ FreeAddrs(vt_destroy(Machine, d)) = {})

\* emplace<T> on a container that already holds a heap-stored T: the object
\* is destroyed and freed, and a new one is allocated and built.
C19_Witness ==
    \E d \in Slots, T \in Types, v \in Values :
        /\ CanAssign(d, T) /\ Readable(d)
        /\ get(d).type = T /\ get(d).value # v
        /\ emplace(Machine, d, T, v, "none").log
              = <<"dtor", "delete", "set_vtable", "new", "ctor">>

\* ------------------------------------------------------------------ C20
\* Operation result t, run on container x from machine state s, left the
\* object of container y as it was.
Untouched(s, t, y) == getOf(t, y) = getOf(s, y)

\* Every later assignment of a bare value to x, emplace on x and destruction
\* of x, run from machine state s, leaves the object of y as it was.
IndependentOf(s, x, y) ==
    /\ Untouched(s, dtor(s, x), y)
    /\ \A b \in Bare, f \in Failures :
          Compiles(b.decl) =>
             /\ Untouched(s, assign_value_copy(s, x, b, f), y)
             /\ Untouched(s, assign_value_move(s, x, b, f), y)
             /\ Untouched(s, emplace(s, x, b.decl, b.value, f), y)

\* The constructor of c returned from run r: the lifetime of c has begun.
Begun(r, c) == [r EXCEPT !.alive[c] = TRUE]

\* Run r copied container src into dst: dst holds an object equal to the one
\* src held, src is as it was, and the two objects are distinct.
CopiedApart(r, dst, src) ==
    Returned(r) =>
        /\ HoldsObject(r, dst)
        /\ getOf(r, dst) = get(src)
        /\ r.m_vtable[src] = m_vtable[src]
        /\ r.m_storage[src] = m_storage[src]
        /\ getOf(r, src) = get(src)
        /\ ~storage_is_local(r.m_vtable[dst])
              => r.m_storage[dst].ptr # r.m_storage[src].ptr
        /\ IndependentOf(Caught(r), dst, src)
        /\ IndependentOf(Caught(r), src, dst)

\* C20: after a container was copy-constructed from src, or src was
\* copy-assigned onto dst (of the same or of another type), the destination
\* holds a value equal to the one src had, src's table, storage and value are
\* unchanged, and the two hold distinct objects: a later assignment to,
\* emplace on or destruction of either leaves the other's value unchanged.
C20_CopyIsIndependent ==
    \A src \in Slots : \A dst \in Slots \ {src} :
        /\ CanConstructFrom(dst, src) =>
              CopiedApart(Begun(ctor_copy(Machine, dst, src, "none"), dst), dst, src)
        /\ CanAssignFrom(dst, src) =>
              CopiedApart(assign_copy(Machine, dst, src, "none"), dst, src)

\* ------------------------------------------------------------------ C21
\* Containers dst and src hold heap objects of one concrete type.
BothHeapHeldSameType(dst, src) ==
    /\ HeapHeld(dst) /\ HeapHeld(src)
    /\ m_vtable[dst] = m_vtable[src]

\* Run r exchanged the pointers of dst and src and did nothing else.
PointersSwapped(r, dst, src) ==
    /\ Returned(r)
    /\ r.log = <<"ptr_swap">>
    /\ r.m_storage[dst].ptr = m_storage[src].ptr
    /\ r.m_storage[src].ptr = m_storage[dst].ptr
    /\ getOf(r, dst) = get(src)
    /\ getOf(r, src) = get(dst)
    /\ r.m_vtable = m_vtable
    /\ r.heap = heap
    /\ r.ctor_minus_dtor = ctor_minus_dtor
    /\ r.new_minus_delete = new_minus_delete

\* Operation result t ran n destructors of held objects, freed their blocks,
\* and read or freed nothing that is not there.
DestroyedOnce(t, n) ==
    /\ t.ub = "none"
    /\ Count(t.log, "dtor") = n
    /\ Count(t.log, "delete") >= n

\* From machine state s, in which src holds dst's former object: it is
\* destroyed once when src is destroyed, when src is emplaced on and when src
\* is assigned a value of another type; an assignment of the same type leaves
\* it alive in src; the destruction of dst does not reach it, so that it is
\* destroyed once when both containers are destroyed, in either order.
DestroyedOnceWithSource(s, dst, src) ==
    /\ DestroyedOnce(dtor(s, src), 1)
    /\ \A b \in Bare, f \in Failures :
          Compiles(b.decl) =>
             /\ DestroyedOnce(emplace(s, src, b.decl, b.value, f), 1)
             /\ b \notin Sliced =>
                   DestroyedOnce(assign_value_copy(s, src, b, f),
                                 IF get_vtable(b.decl) = s.m_vtable[src] THEN 0 ELSE 1)
    /\ Untouched(s, dtor(s, dst), src)
    /\ DestroyedOnce(dtor(Caught(dtor(s, dst)), src), 1)
    /\ DestroyedOnce(dtor(Caught(dtor(s, src)), dst), 1)

\* C21: move-assigning a heap-held container src onto a heap-held container
\* dst of the same concrete type swaps the two pointers: afterwards dst holds
\* the object src held and src the object dst held, no object was destroyed,
\* constructed or assigned, and dst's former object is destroyed exactly once
\* later, when src is destroyed or reassigned.
C21_HeapMoveAssignSwaps ==
    \A src \in Slots : \A dst \in Slots \ {src} :
        (CanAssignFrom(dst, src) /\ BothHeapHeldSameType(dst, src)) =>
            /\ PointersSwapped(assign_move(Machine, dst, src), dst, src)
            /\ DestroyedOnceWithSource(Caught(assign_move(Machine, dst, src)), dst, src)

\* ------------------------------------------------------------------ C22
\* The table generated for type T and storage kind h (TRUE for heap) sits
\* where the parity test expects it.
TablePlacedForKind(T, h) ==
    /\ StaticBase(T, h) % (PtrAlign * 2) = 0
    /\ TableAddr(T, h) % (PtrAlign * 2) = (IF h THEN PtrSize ELSE 0)
    /\ storage_is_local(TableAddr(T, h)) <=> ~h
    /\ TableAt(TableAddr(T, h)) = [type |-> T, heap |-> h]

\* In machine state s, get() on container c reads the member of m_storage
\* that holds the object: the inline buffer under an inline table, the owned
\* pointer under a heap table.
ReadsWhereStored(s, c) ==
    /\ storage_is_local(s.m_vtable[c]) <=> s.m_storage[c].rep = "local"
    /\ ~storage_is_local(s.m_vtable[c]) <=> s.m_storage[c].rep = "heap"
    /\ storage_is_local(s.m_vtable[c]) <=> ~store_in_heap(getOf(s, c).type)
    /\ getOf(s, c).kind = "object"

\* Run r, if it returned, left the object of container c where get() reads.
BuiltWhereRead(r, c) == Returned(r) => ReadsWhereStored(r, c)

\* Every operation that builds an object into container c and returns leaves
\* it where get() reads.
EveryBuildReadsWhereStored ==
    /\ \A c \in Slots, x \in Bare, m \in BOOLEAN, f \in Failures :
          CanConstruct(c, x.decl) =>
             /\ BuiltWhereRead(ctor_value(Machine, c, x, m, f), c)
             /\ BuiltWhereRead(ctor_in_place(Machine, c, x.decl, x.value, f), c)
    /\ \A c \in Slots, src \in Slots, f \in Failures :
          CanConstructFrom(c, src) =>
             /\ BuiltWhereRead(ctor_copy(Machine, c, src, f), c)
             /\ ReadsWhereStored(ctor_move(Machine, c, src), c)
    /\ \A d \in Slots, x \in Bare, f \in Failures :
          (CanAssign(d, x.decl) /\ Readable(d)) =>
             /\ BuiltWhereRead(assign_value_copy(Machine, d, x, f), d)
             /\ BuiltWhereRead(assign_value_move(Machine, d, x, f), d)
             /\ BuiltWhereRead(emplace(Machine, d, x.decl, x.value, f), d)
    /\ \A d \in Slots : \A src \in Slots \ {d}, f \in Failures :
          (CanAssignFrom(d, src) /\ Readable(d)) =>
             /\ BuiltWhereRead(assign_copy(Machine, d, src, f), d)
             /\ ReadsWhereStored(assign_move(Machine, d, src), d)

\* C22: for every table the generator produces, the parity test on its
\* address answers "inline" exactly when the table was generated for inline
\* storage: inline tables sit at a multiple of twice the pointer width, heap
\* tables exactly one pointer width past one; so get() reads the inline
\* buffer exactly when the held object is inline and the owned pointer
\* exactly when it is heap-stored.
C22_ParityTellsStorageKind ==
    /\ offsetof_vtable = PtrAlign
    /\ \A T \in Types, h \in BOOLEAN : TablePlacedForKind(T, h)
    /\ \A T \in Types : get_vtable(T) = TableAddr(T, store_in_heap(T))
    /\ \A c \in Slots : Readable(c) => ReadsWhereStored(Machine, c)
    /\ EveryBuildReadsWhereStored

\* One container holds an inline object under a table at an even multiple,
\* the other a heap object under a table one pointer width past one.
C22_Witness ==
    \E c \in Slots : \E d \in Slots \ {c} :
        /\ Readable(c) /\ Readable(d)
        /\ m_vtable[c] % (PtrAlign * 2) = 0
        /\ m_storage[c].rep = "local"
        /\ m_vtable[d] % (PtrAlign * 2) = PtrSize
        /\ m_storage[d].rep = "heap"
        /\ get(d).kind = "object"

====
